---- MODULE Spec2Model ----
(***************************************************************************)
(* Somerset Lesson Generator (lesson_generator_app.py).                    *)
(*                                                                         *)
(* Text is a string handled character by character, so that strip(),      *)
(* lower(), split() and join() are computed, not assumed.                  *)
(* A cell of the table is a tagged value: a str, an int, or the missing    *)
(* marker NaN that pandas uses for an absent cell.                         *)
(***************************************************************************)
EXTENDS Integers, Sequences, FiniteSets, TLC

VARIABLES
    fmt,        \* format_list under test: input, mode, first and second result
    pdf,        \* generate_pdf under test: the row and the story built from it
    src,        \* what pd.read_excel returns for the backing file at start-up
    cache,      \* st.cache_data entry of load_data(): (df, week_col, title_col)
    df,         \* the script's DataFrame `df` at the end of the last script run
    file,       \* the content of DATA_PATH after the last save_data()
    ideal,      \* the loaded dataset with every add/edit of the session applied
    widgets,    \* st.session_state of the text_area widgets (key = field)
    sel,        \* the sidebar selection (selected_week, selected_title)
    now,        \* the wall clock, in seconds
    hist        \* bookkeeping of the session: phase, last operation, added titles

vars == <<fmt, pdf, src, cache, df, file, ideal, widgets, sel, now, hist>>

----------------------------------------------------------------------------
(* Bounds of the model *)

MaxLen == 4         \* longest free text given to format_list
MaxRows == 2        \* most rows in a source table
MaxOps == 2         \* most UI interactions in a session
MaxFilled == 1      \* most section fields of a row that are not the empty string
MaxTicks == 1       \* most seconds that pass in a session

----------------------------------------------------------------------------
(* Values and characters *)

StrVal(s) == [t |-> "str", s |-> s, n |-> 0]
IntVal(n) == [t |-> "int", s |-> "", n |-> n]
NaN == [t |-> "nan", s |-> "", n |-> 0]

\* the i-th character of a text
Ch(s, i) == SubSeq(s, i, i)

\* the text from its i-th character on
From(s, i) == SubSeq(s, i, Len(s))

\* isinstance(value, str)
IsStr(v) == v.t = "str"

\* stands for U+2022, the bullet glyph of format_list
BULLET == "*"

BR == "<br/>"

Digits == "0123456789"

\* the i-th digit, as a text of one character
Digit == [i \in 1..Len(Digits) |-> Ch(Digits, i)]

RECURSIVE IntToStr(_)
\* str(n) of a non-negative int
IntToStr(n) ==
    IF n < 10 THEN Digit[n + 1]
    ELSE IntToStr(n \div 10) \o Digit[(n % 10) + 1]

\* str(value): a str is itself, an int its decimal digits, NaN is "nan"
PyStr(v) ==
    CASE v.t = "str" -> v.s
      [] v.t = "int" -> IntToStr(v.n)
      [] OTHER -> "nan"

\* characters str.strip() removes
IsSpace(c) == c \in {" ", "\n", "\t", "\r"}

RECURSIVE LStrip(_)
LStrip(s) == IF s # "" /\ IsSpace(Ch(s, 1)) THEN LStrip(From(s, 2)) ELSE s

RECURSIVE RStrip(_)
RStrip(s) ==
    IF s # "" /\ IsSpace(Ch(s, Len(s))) THEN RStrip(SubSeq(s, 1, Len(s) - 1)) ELSE s

\* str.strip()
Strip(s) == RStrip(LStrip(s))

UpperCase == "ABCDEFGHIJKLMNOPQRSTUVWXYZ"
LowerCase == "abcdefghijklmnopqrstuvwxyz"

\* the upper-case letters, each with its lower-case letter
Letters == [i \in 1..Len(UpperCase) |-> <<Ch(UpperCase, i), Ch(LowerCase, i)>>]

LowerChar(c) ==
    IF \E i \in DOMAIN Letters : Letters[i][1] = c
    THEN Letters[CHOOSE i \in DOMAIN Letters : Letters[i][1] = c][2]
    ELSE c

RECURSIVE Lower(_)
\* str.lower()
Lower(s) == IF s = "" THEN "" ELSE LowerChar(Ch(s, 1)) \o Lower(From(s, 2))

RECURSIVE Replace(_, _, _)
\* str.replace(old, new) for a one-character old
Replace(s, old, new) ==
    IF s = "" THEN ""
    ELSE (IF Ch(s, 1) = old THEN new ELSE Ch(s, 1)) \o Replace(From(s, 2), old, new)

RECURSIVE Split(_, _)
\* str.split(sep) for a one-character sep: empty pieces are kept
Split(s, sep) ==
    IF \E i \in 1..Len(s) : Ch(s, i) = sep
    THEN LET i == CHOOSE k \in 1..Len(s) :
                      Ch(s, k) = sep /\ \A j \in 1..(k - 1) : Ch(s, j) # sep
         IN <<SubSeq(s, 1, i - 1)>> \o Split(From(s, i + 1), sep)
    ELSE <<s>>

RECURSIVE Join(_, _)
\* sep.join(parts)
Join(sep, parts) ==
    IF parts = <<>> THEN ""
    ELSE IF Len(parts) = 1 THEN parts[1]
    ELSE parts[1] \o sep \o Join(sep, Tail(parts))

RECURSIVE SelectNonBlank(_)
\* [x.strip() for x in parts if x.strip()]
SelectNonBlank(parts) ==
    IF parts = <<>> THEN <<>>
    ELSE IF Strip(Head(parts)) # ""
         THEN <<Strip(Head(parts))>> \o SelectNonBlank(Tail(parts))
         ELSE SelectNonBlank(Tail(parts))

----------------------------------------------------------------------------
(* format_list *)

RECURSIVE KeepNonBlankUnstripped(_)
KeepNonBlankUnstripped(parts) ==
    IF parts = <<>> THEN <<>>
    ELSE IF Strip(Head(parts)) # ""
         THEN <<Head(parts)>> \o KeepNonBlankUnstripped(Tail(parts))
         ELSE KeepNonBlankUnstripped(Tail(parts))

\* format_list with the items filtered but not trimmed
format_list_untrimmed(text, numbered) ==
    IF ~IsStr(text) \/ Strip(text.s) = "" THEN ""
    ELSE LET items == KeepNonBlankUnstripped(Split(Replace(text.s, "\n", ";"), ";"))
         IN IF items = <<>> THEN text.s
            ELSE IF numbered
                 THEN Join(BR, [i \in 1..Len(items) |-> IntToStr(i) \o ". " \o items[i]])
                 ELSE Join(BR, [i \in 1..Len(items) |-> BULLET \o " " \o items[i]])

\* format_list without the early return for blank text
format_list_noblank(text, numbered) ==
    IF ~IsStr(text) THEN ""
    ELSE LET items == SelectNonBlank(Split(Replace(text.s, "\n", ";"), ";"))
         IN IF items = <<>> THEN text.s
            ELSE IF numbered
                 THEN Join(BR, [i \in 1..Len(items) |-> IntToStr(i) \o ". " \o items[i]])
                 ELSE Join(BR, [i \in 1..Len(items) |-> BULLET \o " " \o items[i]])

\* format_list numbering from 0 (the index of enumerate used as it is)
format_list_zero(text, numbered) ==
    IF ~IsStr(text) \/ Strip(text.s) = "" THEN ""
    ELSE LET items == SelectNonBlank(Split(Replace(text.s, "\n", ";"), ";"))
         IN IF items = <<>> THEN text.s
            ELSE IF numbered
                 THEN Join(BR, [i \in 1..Len(items) |-> IntToStr(i - 1) \o ". " \o items[i]])
                 ELSE Join(BR, [i \in 1..Len(items) |-> BULLET \o " " \o items[i]])

format_list(text, numbered) ==
    IF ~IsStr(text) \/ Strip(text.s) = "" THEN ""
    ELSE LET items == SelectNonBlank(Split(Replace(text.s, "\n", ";"), ";"))
         IN IF items = <<>> THEN text.s
            ELSE IF numbered
                 THEN Join(BR, [i \in 1..Len(items) |-> IntToStr(i) \o ". " \o items[i]])
                 ELSE Join(BR, [i \in 1..Len(items) |-> BULLET \o " " \o items[i]])

----------------------------------------------------------------------------
(* Column names and texts the script spells out *)

ColDate == "Date"
ColLessonStatus == "Lesson Status"
ColDayContinuous == "Day # (Continuous)"
ColWeek == "Week"
ColLessonTitle == "Lesson Title"
UntitledLesson == StrVal("Untitled Lesson")
Planned == StrVal("Planned")
NewLessonPrefix == "New Lesson "
Blank == StrVal("")

----------------------------------------------------------------------------
(* The table (pandas DataFrame): column headers in order, and the rows,    *)
(* each a sequence of cells aligned with the headers                       *)

EmptyTable == [cols |-> <<>>, rows |-> <<>>]

\* col in df.columns
HasCol(t, c) == \E i \in 1..Len(t.cols) : t.cols[i] = c

ColIdx(t, c) == CHOOSE i \in 1..Len(t.cols) : t.cols[i] = c

\* df.at[r, c]
At(t, r, c) == t.rows[r][ColIdx(t, c)]

\* df[c] = v: a new column is appended, an existing one overwritten
SetColumn(t, c, v) ==
    IF HasCol(t, c)
    THEN [t EXCEPT !.rows = [r \in 1..Len(t.rows) |->
                                [t.rows[r] EXCEPT ![ColIdx(t, c)] = v]]]
    ELSE [cols |-> Append(t.cols, c),
          rows |-> [r \in 1..Len(t.rows) |-> Append(t.rows[r], v)]]

\* df.at[r, c] = v
SetAt(t, r, c, v) == [t EXCEPT !.rows[r][ColIdx(t, c)] = v]

\* df.fillna(v)
fillna(t, v) ==
    [t EXCEPT !.rows = [r \in 1..Len(t.rows) |->
        [j \in 1..Len(t.rows[r]) |->
            IF t.rows[r][j] = NaN THEN v ELSE t.rows[r][j]]]]

AllMissing(row) == \A j \in 1..Len(row) : row[j] = NaN

\* df.dropna(how="all")
dropna_all(t) == [t EXCEPT !.rows = SelectSeq(t.rows, LAMBDA row : ~AllMissing(row))]

----------------------------------------------------------------------------
(* load_data *)

KeyFields == <<"Lesson Summary", "Terms / Vocabulary",
               "GIG / Bell Ringer">>

WeekNames == {"week", "week #", "week number"}
TitleNames == {"lesson title", "title"}

\* df.columns = [str(c).strip() for c in df.columns]
StripHeaders(t) == [t EXCEPT !.cols = [i \in 1..Len(t.cols) |-> Strip(t.cols[i])]]

RECURSIVE AddMissing(_, _)
\* for col in [...]: if col not in df.columns: df[col] = ""
AddMissing(t, fields) ==
    IF fields = <<>> THEN t
    ELSE AddMissing(IF HasCol(t, Head(fields)) THEN t
                    ELSE SetColumn(t, Head(fields), Blank),
                    Tail(fields))

NoColumn == [found |-> FALSE, col |-> ""]

RECURSIVE DetectCaseSensitive(_, _)
\* the scan without lower()
DetectCaseSensitive(cols, names) ==
    IF cols = <<>> THEN NoColumn
    ELSE IF Strip(Head(cols)) \in names
         THEN [found |-> TRUE, col |-> Head(cols)]
         ELSE DetectCaseSensitive(Tail(cols), names)

RECURSIVE DetectColumn(_, _)
\* for c in df.columns: if str(c).strip().lower() in names: col = c; break
DetectColumn(cols, names) ==
    IF cols = <<>> THEN NoColumn
    ELSE IF Lower(Strip(Head(cols))) \in names
         THEN [found |-> TRUE, col |-> Head(cols)]
         ELSE DetectColumn(Tail(cols), names)

load_data(source) ==
    LET t1 == AddMissing(StripHeaders(source), KeyFields)
        w == DetectColumn(t1.cols, WeekNames)
        t2 == IF w.found THEN t1 ELSE SetColumn(t1, ColWeek, IntVal(1))
        week_col == IF w.found THEN w.col ELSE ColWeek
        ti == DetectColumn(t2.cols, TitleNames)
        t3 == IF ti.found THEN t2
              ELSE SetColumn(t2, ColLessonTitle, UntitledLesson)
        title_col == IF ti.found THEN ti.col ELSE ColLessonTitle
    IN [df |-> dropna_all(fillna(t3, Blank)),
        week_col |-> week_col,
        title_col |-> title_col]

\* save_data: df.to_excel(DATA_PATH, index=False) overwrites the whole file
save_data(t) == t

----------------------------------------------------------------------------
(* Ordering of values, as sorted() compares them *)

\* the ASCII characters in code-point order (all but the grave accent,
\* which no text of the model holds)
CodeOrder ==
    "\t\n\r !\"#$%&'()*+,-./0123456789:;<=>?@ABCDEFGHIJKLMNOPQRSTUVWXYZ"
    \o "[\\]^_abcdefghijklmnopqrstuvwxyz{|}~"

\* ord(c), as the rank of the character in that order
CodePoints == [i \in 1..Len(CodeOrder) |-> Ch(CodeOrder, i)]
Ord(c) ==
    IF \E i \in DOMAIN CodePoints : CodePoints[i] = c
    THEN CHOOSE i \in DOMAIN CodePoints : CodePoints[i] = c
    ELSE Len(CodeOrder) + 1

RECURSIVE StrLess(_, _)
StrLess(a, b) ==
    IF b = "" THEN FALSE
    ELSE IF a = "" THEN TRUE
    ELSE IF Ch(a, 1) = Ch(b, 1) THEN StrLess(From(a, 2), From(b, 2))
    ELSE Ord(Ch(a, 1)) < Ord(Ch(b, 1))

ValLess(u, v) == IF u.t = "int" THEN u.n < v.n ELSE StrLess(u.s, v.s)

\* sorted() raises TypeError on a mix of str and int
Sortable(vals) == \A u, v \in vals : u.t = v.t

RECURSIVE Sorted(_)
Sorted(vals) ==
    IF vals = {} THEN <<>>
    ELSE LET m == CHOOSE x \in vals : \A y \in vals \ {x} : ValLess(x, y)
         IN <<m>> \o Sorted(vals \ {m})

----------------------------------------------------------------------------
(* The script: sidebar filters and the selected row *)

ColumnValues(t, c) == {At(t, r, c) : r \in 1..Len(t.rows)}

\* weeks = sorted(df[week_col].dropna().unique().tolist()) or [1]
WeekSet(c) == ColumnValues(c.df, c.week_col)
weeks(c) == IF WeekSet(c) = {} THEN <<IntVal(1)>> ELSE Sorted(WeekSet(c))

\* week_df = df[df[week_col] == selected_week], as row indices of df
week_df(c, selected_week) ==
    {r \in 1..Len(c.df.rows) : At(c.df, r, c.week_col) = selected_week}

\* titles = sorted(week_df[title_col].dropna().unique().tolist()) or ["Untitled Lesson"]
TitleSet(c, selected_week) ==
    {At(c.df, r, c.title_col) : r \in week_df(c, selected_week)}
titles(c, selected_week) ==
    IF TitleSet(c, selected_week) = {}
    THEN <<UntitledLesson>>
    ELSE Sorted(TitleSet(c, selected_week))

\* selected_row = week_df[week_df[title_col] == selected_title].head(1);
\* idx = selected_row.index[0], or 0 when selected_row is empty
SelectedIdx(c, s) ==
    LET hits == {r \in week_df(c, s.week) : At(c.df, r, c.title_col) = s.title}
    IN IF hits = {} THEN 0 ELSE CHOOSE r \in hits : \A q \in hits : r <= q

\* a selectbox starts on its first option
FirstSelection(c) ==
    [week |-> weeks(c)[1], title |-> titles(c, weeks(c)[1])[1]]

----------------------------------------------------------------------------
(* Add New Lesson *)

TwoDigits(n) == Digit[(n \div 10) + 1] \o Digit[(n % 10) + 1]

\* datetime.now().strftime("%H%M%S")
HHMMSS(clock) ==
    TwoDigits((clock \div 3600) % 24) \o TwoDigits((clock \div 60) % 60)
    \o TwoDigits(clock % 60)

\* datetime.now().strftime("%B %d, %Y"); the clock counts from
\* January 1, 2025, 00:00:00 and stays within January
DateText(clock) ==
    "January " \o TwoDigits((clock \div 86400) + 1) \o ", 2025"

\* new_row[k] = v
Put(d, k, v) == [x \in DOMAIN d \cup {k} |-> IF x = k THEN v ELSE d[x]]

\* the dict new_row, and the keys it adds to df.columns, in insertion order
new_row(t, week_col, title_col, selected_week, clock) ==
    LET d0 == [c \in {t.cols[i] : i \in 1..Len(t.cols)} |-> Blank]
        d1 == Put(d0, week_col, selected_week)
        d2 == Put(d1, ColDate, StrVal(DateText(clock)))
        d3 == Put(d2, title_col, StrVal(NewLessonPrefix \o HHMMSS(clock)))
        d4 == Put(d3, ColLessonStatus, Planned)
    IN IF HasCol(t, ColDayContinuous)
       THEN Put(d4, ColDayContinuous, IntVal(Len(t.rows) + 1))
       ELSE d4

NewKeys(t) ==
    (IF HasCol(t, ColDate) THEN <<>> ELSE <<ColDate>>)
    \o (IF HasCol(t, ColLessonStatus) THEN <<>> ELSE <<ColLessonStatus>>)

\* pd.concat([a, pd.DataFrame([row])], ignore_index=True) with the new row first
concat_row_first(t, row, added) ==
    LET cols == t.cols \o added
    IN [cols |-> cols,
        rows |-> <<[j \in 1..Len(cols) |-> row[cols[j]]]>>
                 \o [r \in 1..Len(t.rows) |->
                        t.rows[r] \o [j \in 1..Len(added) |-> NaN]]]

\* pd.concat([df, pd.DataFrame([row])], ignore_index=True): the columns are the
\* union, in order; a row that lacks a column gets the missing marker there
concat_row(t, row, added) ==
    LET cols == t.cols \o added
    IN [cols |-> cols,
        rows |-> [r \in 1..Len(t.rows) |->
                        t.rows[r] \o [j \in 1..Len(added) |-> NaN]]
                 \o <<[j \in 1..Len(cols) |-> row[cols[j]]]>>]

\* the handler of the "Add New Lesson" button, up to save_data(df)
AddNewLesson(t, week_col, title_col, selected_week, clock) ==
    concat_row(t, new_row(t, week_col, title_col, selected_week, clock), NewKeys(t))

----------------------------------------------------------------------------
(* The edit form *)

left_fields_rest ==
    <<ColDate, "NV Standard Code",
      "NV Standard Descriptor", "Lesson Objective(s)",
      "Essential Question", "Lesson Summary",
      "Instructional Strategies and Procedures",
      "Accommodations and Modifications Strategies",
      "GIG / Bell Ringer", "Closure / Exit Ticket">>

left_fields(title_col) == <<title_col>> \o left_fields_rest

right_fields ==
    <<"Materials / Resources", "Terms / Vocabulary",
      "Learning Evidence", "Tiered Differentiation",
      "Tech Tools", "Tech Purpose", "Formative Check",
      "Summative Assessment", "Reflection / Notes",
      ColLessonStatus>>

\* the session state of the widget with this key
HasWidget(w, key) == \E x \in w : x.key = key
Widget(w, key) == CHOOSE x \in w : x.key = key

\* st.text_area(field, value, key=field): a widget keeps what the user typed
\* from one script run to the next for as long as it is the same widget, and
\* Streamlit takes it for the same widget while its label, its key and its
\* default value are the same; with another default value it starts over.
text_area(w, field, value) ==
    IF HasWidget(w, field) /\ Widget(w, field).dflt = value
    THEN Widget(w, field).val
    ELSE value

RECURSIVE EditForm(_, _, _, _)
\* for field in fields: if field in df.columns: new_val = st.text_area(...);
\* if new_val != str(df.at[idx, field]): df.at[idx, field] = new_val; save_data(df)
EditForm(st, fields, idx, w) ==
    IF fields = <<>> THEN st
    ELSE LET field == Head(fields)
         IN IF ~HasCol(st.df, field)
            THEN EditForm(st, Tail(fields), idx, w)
            ELSE LET stored == PyStr(At(st.df, idx, field))
                     new_val == text_area(w, field, stored)
                     changed == new_val # stored
                     df1 == IF changed
                            THEN SetAt(st.df, idx, field, StrVal(new_val))
                            ELSE st.df
                 IN EditForm([df |-> df1,
                              file |-> IF changed THEN save_data(df1) ELSE st.file,
                              saved |-> st.saved \/ changed,
                              added |-> st.added,
                              widgets |-> st.widgets \cup
                                  {[key |-> field, dflt |-> stored, val |-> new_val]}],
                             Tail(fields), idx, w)

\* One run of the script, lines 66 to 139: df is the cached copy, then the
\* Add New Lesson handler when its button was clicked, then the edit form
\* when a row is selected. Widgets that are not rendered lose their state.
ScriptRun(c, w, s, add, clock, onDisk) ==
    LET idx == SelectedIdx(c, s)
        df1 == IF add
               THEN AddNewLesson(c.df, c.week_col, c.title_col, s.week, clock)
               ELSE c.df
        st0 == [df |-> df1,
                file |-> IF add THEN save_data(df1) ELSE onDisk,
                saved |-> add,
                added |-> df1,
                widgets |-> {}]
    IN IF idx = 0 THEN st0
       ELSE EditForm(st0, left_fields(c.title_col) \o right_fields, idx, w)

\* the script runs to its end: neither sorted() call raises
Runnable(c) ==
    /\ Sortable(WeekSet(c))
    /\ Sortable(TitleSet(c, weeks(c)[1]))

----------------------------------------------------------------------------
(* generate_pdf: the story (filename and doc.build are left out) *)

Absent == [t |-> "absent", s |-> "", n |-> 0]

\* row.get(key, default)
Get(row, key, default) == IF row[key] = Absent THEN default ELSE row[key]

Paragraph(text, style) == [kind |-> "Paragraph", text |-> text, style |-> style]
Spacer(h) == [kind |-> "Spacer", text |-> "", style |-> IntToStr(h)]

\* value.replace("\n", "<br/>")
NewlinesToBreaks(text) == Join(BR, Split(text, "\n"))

add_section(story, name, value, bullet, numbered) ==
    IF ~IsStr(value) \/ Strip(value.s) = "" THEN story
    ELSE story \o
         <<Paragraph(name, "section"),
           Paragraph(IF bullet \/ numbered THEN format_list(value, numbered)
                     ELSE NewlinesToBreaks(value.s), "normal"),
           Spacer(8)>>

\* stands for U+2013, the dash of the week/day line
ENDASH == "-"

generate_pdf(row, week_col, title_col) ==
    LET week == Strip(PyStr(Get(row, week_col, Blank)))
        day == Strip(PyStr(Get(row, ColDayContinuous, Blank)))
        title == Strip(PyStr(Get(row, title_col, Blank)))
        date == Strip(PyStr(Get(row, ColDate, Blank)))
        s0 == <<Paragraph("Somerset Academy Sky Pointe " \o BULLET
                          \o " U.S. History 8", "header"),
                Paragraph("Week " \o week \o " " \o ENDASH \o " "
                          \o "Day " \o day \o " | Date: " \o date,
                          "normal"),
                Spacer(12),
                Paragraph("Lesson Title: " \o title, "section"),
                Spacer(8)>>
        s1 == add_section(s0, "NV Standards",
                  StrVal(PyStr(Get(row, "NV Standard Code", Blank)) \o BR
                         \o PyStr(Get(row, "NV Standard Descriptor", Blank))),
                  FALSE, FALSE)
        s2 == add_section(s1, "Lesson Objective",
                  Get(row, "Lesson Objective(s)", Blank), FALSE, FALSE)
        s3 == add_section(s2, "Essential Question",
                  Get(row, "Essential Question", Blank), FALSE, FALSE)
        s4 == add_section(s3, "Lesson Summary",
                  Get(row, "Lesson Summary", Blank), FALSE, FALSE)
        s5 == add_section(s4, "Instructional Strategies and Procedures",
                  Get(row, "Instructional Strategies and Procedures", Blank),
                  FALSE, TRUE)
        s6 == add_section(s5, "Accommodations and Modifications Strategies",
                  Get(row, "Accommodations and Modifications Strategies", Blank),
                  TRUE, FALSE)
        s7 == add_section(s6, "GIG / Bell Ringer",
                  Get(row, "GIG / Bell Ringer", Blank), FALSE, FALSE)
        s8 == add_section(s7, "Closure / Exit Ticket",
                  Get(row, "Closure / Exit Ticket", Blank), FALSE, FALSE)
        s9 == add_section(s8, "Materials / Resources",
                  Get(row, "Materials / Resources", Blank), TRUE, FALSE)
        s10 == add_section(s9, "Terms / Vocabulary",
                  Get(row, "Terms / Vocabulary", Blank), TRUE, FALSE)
        s11 == add_section(s10, "Learning Evidence",
                  Get(row, "Learning Evidence", Blank), FALSE, FALSE)
    IN add_section(s11, "Reflection / Notes",
                  Get(row, "Reflection / Notes", Blank), FALSE, FALSE)

----------------------------------------------------------------------------
(* Inputs *)

\* free texts given to format_list, and the examples of the documentation
FmtAlphabet == {"a", "b", " ", ";", "\n"}
ExampleTexts == {"a;b;c", "a\nb", "no delimiters here"}
RECURSIVE Texts(_)
\* the texts of at most k characters
Texts(k) ==
    IF k = 0 THEN {""}
    ELSE Texts(k - 1) \cup {t \o c : t \in Texts(k - 1), c \in FmtAlphabet}

FmtInputs ==
    {StrVal(s) : s \in Texts(MaxLen)}
    \cup {StrVal(s) : s \in ExampleTexts}
    \cup {IntVal(1), NaN}

\* a column of a source table: its header as written in the file, and the
\* cells it may hold (NaN is an empty cell)
Column(header, pool) == [header |-> header, pool |-> pool]

AnyCell == {NaN, StrVal("a"), IntVal(1)}

LoadLayouts ==
    {<<Column("Notes", AnyCell)>>,
     <<Column(" WEEK ", AnyCell), Column("Title", AnyCell)>>,
     <<Column("Week #", {NaN, IntVal(1)}), Column("week", {NaN, StrVal("a")}),
       Column("LESSON TITLE", {NaN, StrVal("a")})>>,
     <<Column("Title", {NaN, StrVal("a")}), Column("Lesson Title ", {NaN, IntVal(1)}),
       Column("Week Number", {NaN, IntVal(1)})>>,
     <<Column("Weekly", AnyCell), Column("Subtitle", AnyCell)>>,
     <<Column("Week", AnyCell), Column("Date", AnyCell)>>,
     <<Column("Lesson Summary", AnyCell), Column("title", AnyCell)>>}

SessionLayouts ==
    {<<Column("Week", {IntVal(1), IntVal(2)}),
       Column("Title", {StrVal("a"), StrVal("b")})>>,
     <<Column("Notes", {NaN, StrVal("a")})>>,
     <<Column("Date", {NaN, StrVal("a")}),
       Column("Lesson Status", {StrVal("a")}),
       Column("title", {StrVal("a"), StrVal("b")})>>,
     <<Column("week #", {IntVal(1), NaN}),
       Column("Day # (Continuous)", {IntVal(1)})>>}

AllCells == AnyCell \cup {IntVal(2), StrVal("b")}

RowsOf(layout) ==
    {r \in [1..Len(layout) -> AllCells] : \A j \in 1..Len(layout) : r[j] \in layout[j].pool}

\* what pd.read_excel returns: blank rows inside the sheet are kept as rows of
\* NaN, blank rows at its end are trimmed by the reader
Tables(layouts, maxRows) ==
    {[cols |-> [j \in 1..Len(layout) |-> layout[j].header], rows |-> rows] :
        <<layout, rows>> \in
            {x \in UNION {{<<l, rs>> : rs \in UNION {[1..k -> RowsOf(l)] : k \in 0..maxRows}}
                          : l \in layouts} :
                x[2] = <<>> \/ ~AllMissing(x[2][Len(x[2])])}}

\* what the user types into a text area, and the fields typed into
EditTexts == {"", "x"}
UserFields(c) == {c.title_col, "Lesson Summary"}

PdfFields ==
    {"Week", "Lesson Title", "Date", "Day # (Continuous)"}
    \cup {"NV Standard Code", "NV Standard Descriptor",
          "Lesson Objective(s)", "Essential Question",
          "Lesson Summary", "Instructional Strategies and Procedures",
          "Accommodations and Modifications Strategies",
          "GIG / Bell Ringer", "Closure / Exit Ticket",
          "Materials / Resources", "Terms / Vocabulary",
          "Learning Evidence", "Reflection / Notes"}

----------------------------------------------------------------------------
(* States that stand for "not in use" in a specification *)

FmtIdle == [text |-> Blank, numbered |-> FALSE, out |-> "", out2 |-> "", pc |-> "idle"]
PdfIdle == [row |-> [k \in PdfFields |-> Absent], story |-> <<>>, pc |-> "idle"]
EmptyCache == [df |-> EmptyTable, week_col |-> "", title_col |-> ""]
NoSelection == [week |-> IntVal(1), title |-> Blank]
HistIdle ==
    [phase |-> "idle", ops |-> 0, ticks |-> 0, last |-> "none",
     pre |-> EmptyTable, post |-> EmptyTable, week |-> IntVal(1),
     titles |-> <<>>, saved |-> FALSE]

SessionIdle ==
    /\ src = EmptyTable
    /\ cache = EmptyCache
    /\ df = EmptyTable
    /\ file = EmptyTable
    /\ ideal = EmptyTable
    /\ widgets = {}
    /\ sel = NoSelection
    /\ now = 0
    /\ hist = HistIdle

sessionVars == <<src, cache, df, file, ideal, widgets, sel, now, hist>>

----------------------------------------------------------------------------
(* format_list applied once and twice *)

FmtInit ==
    /\ fmt \in {[text |-> t, numbered |-> m, out |-> "", out2 |-> "", pc |-> "init"] :
                  t \in FmtInputs, m \in BOOLEAN}
    /\ pdf = PdfIdle
    /\ SessionIdle

FormatOnce ==
    /\ fmt.pc = "init"
    /\ fmt' = [fmt EXCEPT !.out = format_list(fmt.text, fmt.numbered), !.pc = "once"]
    /\ UNCHANGED <<pdf, sessionVars>>

FormatTwice ==
    /\ fmt.pc = "once"
    /\ fmt' = [fmt EXCEPT !.out2 = format_list(StrVal(fmt.out), fmt.numbered),
                          !.pc = "twice"]
    /\ UNCHANGED <<pdf, sessionVars>>

FmtNext == FormatOnce \/ FormatTwice

SpecFmt == FmtInit /\ [][FmtNext]_vars

----------------------------------------------------------------------------
(* Properties of format_list *)

IsDelimiter(c) == c \in {";", "\n"}

\* s without its leading and trailing whitespace, by position
Trimmed(s) ==
    LET solid == {i \in 1..Len(s) : ~IsSpace(Ch(s, i))}
    IN IF solid = {} THEN ""
       ELSE SubSeq(s, CHOOSE i \in solid : \A j \in solid : i <= j,
                      CHOOSE i \in solid : \A j \in solid : i >= j)

RECURSIVE ScanItems(_, _, _)
\* the items of a text, read left to right: an item ends at a delimiter or at
\* the end of the text, is trimmed, and is dropped when nothing is left of it
ScanItems(rest, current, found) ==
    LET closed == IF Trimmed(current) = "" THEN found
                  ELSE Append(found, Trimmed(current))
    IN IF rest = "" THEN closed
       ELSE IF IsDelimiter(Ch(rest, 1)) THEN ScanItems(From(rest, 2), "", closed)
       ELSE ScanItems(From(rest, 2), current \o Ch(rest, 1), found)

ItemsOf(s) == ScanItems(s, "", <<>>)

ItemPrefix(numbered, k) == IF numbered THEN IntToStr(k) \o ". " ELSE BULLET \o " "

RECURSIVE Listed(_, _, _)
\* the first k items, each with its prefix, separated by "<br/>"
Listed(items, numbered, k) ==
    IF k = 0 THEN ""
    ELSE Listed(items, numbered, k - 1) \o (IF k > 1 THEN BR ELSE "")
         \o ItemPrefix(numbered, k) \o items[k]

\* every character is a delimiter or whitespace: the text holds no item
NoItem(s) == \A i \in 1..Len(s) : IsDelimiter(Ch(s, i)) \/ IsSpace(Ch(s, i))
NoDelimiter(s) == \A i \in 1..Len(s) : ~IsDelimiter(Ch(s, i))
AllSpace(s) == \A i \in 1..Len(s) : IsSpace(Ch(s, i))

\* C6: for a text with at least one non-empty item, format_list returns the
\* trimmed non-empty items in their order, joined by "<br/>", the k-th one
\* prefixed with "k. " in numbered mode and each with the bullet in bullet
\* mode; "a;b;c" numbered gives "1. a<br/>2. b<br/>3. c" and "a\nb" bulleted
\* gives the two bulleted items.
C6_ListFormatted ==
    (fmt.pc \in {"once", "twice"} /\ IsStr(fmt.text) /\ ItemsOf(fmt.text.s) # <<>>) =>
        /\ fmt.out = Listed(ItemsOf(fmt.text.s), fmt.numbered, Len(ItemsOf(fmt.text.s)))
        /\ (fmt.text.s = "a;b;c" /\ fmt.numbered) =>
               fmt.out = "1. a<br/>2. b<br/>3. c"
        /\ (fmt.text.s = "a\nb" /\ ~fmt.numbered) =>
               fmt.out = BULLET \o " a<br/>" \o BULLET \o " b"

C6_Witness ==
    /\ fmt.pc = "once"
    /\ fmt.text = StrVal(" b;a")
    /\ fmt.numbered
    /\ fmt.out = "1. b<br/>2. a"

\* C7 as stated: a text with no non-empty item, and a text without any
\* delimiter, are returned unchanged.
C7_UnchangedFallback ==
    (fmt.pc \in {"once", "twice"} /\ IsStr(fmt.text)
        /\ (NoItem(fmt.text.s) \/ NoDelimiter(fmt.text.s))) =>
        fmt.out = fmt.text.s

\* C7 amended: format_list returns the empty string for a text that is empty
\* or all whitespace (newlines included); it returns the text unchanged when
\* the text holds a semicolon and nothing but delimiters and whitespace; and a
\* text without any delimiter that is not blank is formatted as a list of one
\* item: "no delimiters here" numbered gives "1. no delimiters here".
C7_FallbackAmended ==
    (fmt.pc \in {"once", "twice"} /\ IsStr(fmt.text)) =>
        /\ AllSpace(fmt.text.s) => fmt.out = ""
        /\ (NoItem(fmt.text.s) /\ ~AllSpace(fmt.text.s)) => fmt.out = fmt.text.s
        /\ (NoDelimiter(fmt.text.s) /\ ~AllSpace(fmt.text.s)) =>
               fmt.out = ItemPrefix(fmt.numbered, 1) \o Trimmed(fmt.text.s)
        /\ (fmt.text.s = "no delimiters here" /\ fmt.numbered) =>
               fmt.out = "1. no delimiters here"

C7_Witness ==
    /\ fmt.pc = "once"
    /\ fmt.text = StrVal(" ;\n")
    /\ fmt.out = " ;\n"

\* C8 as stated: applying format_list to its own result changes nothing.
C8_Idempotent == fmt.pc = "twice" => fmt.out2 = fmt.out

\* C8 amended: a second application changes nothing only when the input holds
\* no item (the result is empty or the unchanged text); for every other text
\* the first result is taken as one item and gets one more prefix:
\* format_list(format_list(t, m), m) = prefix + format_list(t, m), the prefix
\* being "1. " in numbered mode and the bullet and a space in bullet mode.
C8_SecondPassAmended ==
    fmt.pc = "twice" =>
        IF ~IsStr(fmt.text) \/ NoItem(fmt.text.s)
        THEN fmt.out2 = fmt.out
        ELSE fmt.out2 = ItemPrefix(fmt.numbered, 1) \o fmt.out

C8_Witness ==
    /\ fmt.pc = "twice"
    /\ fmt.text = StrVal("a;b")
    /\ fmt.numbered
    /\ fmt.out2 = "1. 1. a<br/>2. b"

----------------------------------------------------------------------------
(* generate_pdf applied to one row *)

SectionFields ==
    PdfFields \ {"Week", "Lesson Title", "Date",
                 "Day # (Continuous)"}

SectionCells ==
    {Absent, NaN, IntVal(1), StrVal(" "), StrVal("a"),
     StrVal("a;b"), StrVal("a\nb")}

EmptyRow ==
    [k \in PdfFields |->
        IF k = "Week" THEN IntVal(1)
        ELSE IF k = "Lesson Title" THEN StrVal("T")
        ELSE IF k \in SectionFields THEN Blank
        ELSE Absent]

RECURSIVE PdfRows(_)
PdfRows(k) ==
    IF k = 0 THEN {EmptyRow}
    ELSE PdfRows(k - 1) \cup
         {[r EXCEPT ![f] = v] : r \in PdfRows(k - 1), f \in SectionFields, v \in SectionCells}

PdfInit ==
    /\ pdf \in {[row |-> r, story |-> <<>>, pc |-> "init"] : r \in PdfRows(MaxFilled)}
    /\ fmt = FmtIdle
    /\ SessionIdle

GeneratePdf ==
    /\ pdf.pc = "init"
    /\ pdf' = [pdf EXCEPT !.story = generate_pdf(pdf.row, ColWeek, ColLessonTitle),
                          !.pc = "done"]
    /\ UNCHANGED <<fmt, sessionVars>>

SpecRender == PdfInit /\ [][GeneratePdf]_vars

----------------------------------------------------------------------------
(* load_data applied to one source table *)

LoadInit ==
    /\ src \in Tables(LoadLayouts, MaxRows)
    /\ cache = EmptyCache
    /\ df = EmptyTable
    /\ file = src
    /\ ideal = EmptyTable
    /\ widgets = {}
    /\ sel = NoSelection
    /\ now = 0
    /\ hist = [HistIdle EXCEPT !.phase = "start"]
    /\ fmt = FmtIdle
    /\ pdf = PdfIdle

LoadData ==
    /\ hist.phase = "start"
    /\ cache' = load_data(src)
    /\ df' = cache'.df
    /\ hist' = [hist EXCEPT !.phase = "loaded", !.last = "load"]
    /\ UNCHANGED <<fmt, pdf, src, file, ideal, widgets, sel, now>>

SpecLoad == LoadInit /\ [][LoadData]_vars

----------------------------------------------------------------------------
(* A session: the script runs once at start-up and once more after every   *)
(* interaction with a widget                                               *)

\* 23:59:59 on the first day of the clock
StartTime == (24 * 3600) - 1

Init ==
    /\ src \in Tables(SessionLayouts, MaxRows)
    /\ cache = EmptyCache
    /\ df = EmptyTable
    /\ file = src
    /\ ideal = EmptyTable
    /\ widgets = {}
    /\ sel = NoSelection
    /\ now = StartTime
    /\ hist = [HistIdle EXCEPT !.phase = "start"]
    /\ fmt = FmtIdle
    /\ pdf = PdfIdle

\* the first run: load_data() fills the cache, the selectboxes start on their
\* first option, the form shows the stored values
Start ==
    /\ hist.phase = "start"
    /\ cache' = load_data(src)
    /\ ideal' = cache'.df
    /\ IF Runnable(cache')
       THEN LET r == ScriptRun(cache', {}, FirstSelection(cache'), FALSE, now, file)
            IN /\ sel' = FirstSelection(cache')
               /\ df' = r.df
               /\ widgets' = r.widgets
               /\ hist' = [hist EXCEPT !.phase = "running", !.last = "load"]
       ELSE /\ sel' = sel
            /\ df' = cache'.df
            /\ widgets' = {}
            /\ hist' = [hist EXCEPT !.phase = "crashed", !.last = "load"]
    /\ UNCHANGED <<fmt, pdf, src, file, now>>

\* the user clicks "Add New Lesson"; datetime.now() reads a clock that has
\* moved on by dt seconds since it was last read
AddClick(dt) ==
    /\ hist.phase = "running"
    /\ hist.ops < MaxOps
    /\ hist.ticks + dt <= MaxTicks
    /\ now' = now + dt
    /\ LET r == ScriptRun(cache, widgets, sel, TRUE, now', file)
       IN /\ df' = r.df
          /\ file' = r.file
          /\ widgets' = r.widgets
          /\ hist' = [hist EXCEPT !.ops = @ + 1, !.ticks = @ + dt,
                                  !.last = "add",
                                  !.pre = cache.df, !.post = r.added,
                                  !.week = sel.week,
                                  !.titles = Append(@, At(r.added, Len(r.added.rows),
                                                          cache.title_col)),
                                  !.saved = TRUE]
    /\ ideal' = AddNewLesson(ideal, cache.week_col, cache.title_col, sel.week, now')
    /\ UNCHANGED <<fmt, pdf, src, cache, sel>>

\* the user types v into the text area of field f of the selected record
EditField(f, v) ==
    /\ hist.phase = "running"
    /\ hist.ops < MaxOps
    /\ SelectedIdx(cache, sel) # 0
    /\ HasWidget(widgets, f)
    /\ Widget(widgets, f).val # v
    /\ LET typed == (widgets \ {Widget(widgets, f)})
                    \cup {[Widget(widgets, f) EXCEPT !.val = v]}
           r == ScriptRun(cache, typed, sel, FALSE, now, file)
           idx == SelectedIdx(cache, sel)
       IN /\ df' = r.df
          /\ file' = r.file
          /\ widgets' = r.widgets
          /\ hist' = [hist EXCEPT !.ops = @ + 1, !.last = "edit",
                                  !.saved = @ \/ r.saved]
          /\ ideal' = IF PyStr(At(ideal, idx, f)) # v
                      THEN SetAt(ideal, idx, f, StrVal(v))
                      ELSE ideal
    /\ UNCHANGED <<fmt, pdf, src, cache, sel, now>>

\* the script run that follows a change of the sidebar selection
Reselect(s) ==
    /\ hist.phase = "running"
    /\ hist.ops < MaxOps
    /\ sel' = s
    /\ LET r == ScriptRun(cache, widgets, s, FALSE, now, file)
       IN /\ df' = r.df
          /\ file' = r.file
          /\ widgets' = r.widgets
          /\ hist' = [hist EXCEPT !.ops = @ + 1, !.last = "select",
                                  !.saved = @ \/ r.saved]
    /\ UNCHANGED <<fmt, pdf, src, cache, ideal, now>>

\* the user picks another week; the lesson selectbox starts over
SelectWeek(w) ==
    /\ hist.phase = "running"
    /\ w # sel.week
    /\ \E i \in 1..Len(weeks(cache)) : weeks(cache)[i] = w
    /\ Sortable(TitleSet(cache, w))
    /\ Reselect([week |-> w, title |-> titles(cache, w)[1]])

\* the user picks another lesson of the selected week
SelectLesson(t) ==
    /\ hist.phase = "running"
    /\ t # sel.title
    /\ \E i \in 1..Len(titles(cache, sel.week)) : titles(cache, sel.week)[i] = t
    /\ Reselect([week |-> sel.week, title |-> t])

Next ==
    \/ Start
    \/ \E dt \in 0..MaxTicks : AddClick(dt)
    \/ \E f \in UserFields(cache), v \in EditTexts : EditField(f, v)
    \/ \E w \in AllCells : SelectWeek(w)
    \/ \E t \in AllCells \cup {UntitledLesson} : SelectLesson(t)

Spec == Init /\ [][Next]_vars

----------------------------------------------------------------------------
(* Properties of load_data *)

\* the columns of the source table whose stripped, lower-cased header is one
\* of the names
Matching(names) == {i \in 1..Len(src.cols) : Lower(Strip(src.cols[i])) \in names}

Least(S) == CHOOSE i \in S : \A j \in S : i <= j

\* the field is column number i of the source table, under its stripped header
ResolvedTo(col, i) ==
    /\ col = Strip(src.cols[i])
    /\ cache.df.cols[i] = col

\* the field is a column the source table did not have, holding v on every row
SynthesizedAs(col, name, v) ==
    /\ col = name
    /\ \A i \in 1..Len(src.cols) : Strip(src.cols[i]) # name
    /\ HasCol(cache.df, name)
    /\ \A r \in 1..Len(cache.df.rows) : At(cache.df, r, name) = v

\* C2: load() resolves the week field to the first column whose stripped,
\* lower-cased header is "week", "week #" or "week number", and the title
\* field to the first whose header is "lesson title" or "title"; when no
\* header matches it adds the column "Week" holding 1, respectively "Lesson
\* Title" holding "Untitled Lesson", on every record and returns that name.
C2_FieldsResolved ==
    hist.phase = "loaded" =>
        /\ IF Matching(WeekNames) # {}
           THEN ResolvedTo(cache.week_col, Least(Matching(WeekNames)))
           ELSE SynthesizedAs(cache.week_col, "Week", IntVal(1))
        /\ IF Matching(TitleNames) # {}
           THEN ResolvedTo(cache.title_col, Least(Matching(TitleNames)))
           ELSE SynthesizedAs(cache.title_col, "Lesson Title",
                              StrVal("Untitled Lesson"))

C2_Witness ==
    /\ hist.phase = "loaded"
    /\ src.cols = <<" WEEK ", "Title">>
    /\ Len(src.rows) = 2
    /\ cache.week_col = "WEEK"
    /\ cache.title_col = "Title"

\* C9: the dataset load() returns holds exactly the records of the source
\* table that have at least one non-empty cell, in their order (an empty
\* cell of a kept record reads as the empty string).
C9_BlankRowsDropped ==
    hist.phase = "loaded" =>
        LET kept == SelectSeq(src.rows, LAMBDA row : ~AllMissing(row))
        IN /\ Len(cache.df.rows) = Len(kept)
           /\ \A r \in 1..Len(kept) : \A j \in 1..Len(src.cols) :
                 cache.df.rows[r][j] = IF kept[r][j] = NaN THEN Blank ELSE kept[r][j]

----------------------------------------------------------------------------
(* Properties of generate_pdf *)

\* a section heading is a Paragraph in the section style after the title block
Headings == {i \in 6..Len(pdf.story) : pdf.story[i].style = "section"}
HasHeading(name) == \E i \in Headings : pdf.story[i].text = name

EmptyOrNonText(v) == ~IsStr(v) \/ AllSpace(v.s)

\* the sections fed by one field: heading and field
SingleSourceSections ==
    {<<"Lesson Objective", "Lesson Objective(s)">>,
     <<"Essential Question", "Essential Question">>,
     <<"Lesson Summary", "Lesson Summary">>,
     <<"Instructional Strategies and Procedures",
       "Instructional Strategies and Procedures">>,
     <<"Accommodations and Modifications Strategies",
       "Accommodations and Modifications Strategies">>,
     <<"GIG / Bell Ringer", "GIG / Bell Ringer">>,
     <<"Closure / Exit Ticket", "Closure / Exit Ticket">>,
     <<"Materials / Resources", "Materials / Resources">>,
     <<"Terms / Vocabulary", "Terms / Vocabulary">>,
     <<"Learning Evidence", "Learning Evidence">>,
     <<"Reflection / Notes", "Reflection / Notes">>}

\* C5: a section is left out exactly when its source value is empty or not
\* text, and a record whose section fields are all empty renders as the
\* header and title block alone, with no section heading.
C5_EmptySectionsOmitted ==
    pdf.pc = "done" =>
        /\ \A sec \in SingleSourceSections :
              HasHeading(sec[1]) <=> ~EmptyOrNonText(Get(pdf.row, sec[2], Blank))
        /\ (\A f \in SectionFields : Get(pdf.row, f, Blank) = Blank) =>
              (Headings = {} /\ Len(pdf.story) = 5)

----------------------------------------------------------------------------
(* Properties of a session *)

\* C1 (the missing-marker part): once loaded, and after any adds and edits,
\* every record of the dataset has a cell for every column and no cell holds
\* the missing marker, the records that were there before an add included.
C1_NoMissingCell ==
    hist.phase = "running" =>
        \A r \in 1..Len(df.rows) :
            /\ Len(df.rows[r]) = Len(df.cols)
            /\ \A j \in 1..Len(df.rows[r]) : df.rows[r][j] # NaN

IsPrefix(p, s) == Len(p) <= Len(s) /\ SubSeq(s, 1, Len(p)) = p

\* C3: the add handler turns the dataset it is given into one with exactly
\* one more record, the new record last, every earlier record at its place
\* with every field value it had.
C3_AddAppendsOne ==
    hist.last = "add" =>
        /\ Len(hist.post.rows) = Len(hist.pre.rows) + 1
        /\ \A r \in 1..Len(hist.pre.rows) : \A j \in 1..Len(hist.pre.cols) :
              /\ hist.post.cols[j] = hist.pre.cols[j]
              /\ hist.post.rows[r][j] = hist.pre.rows[r][j]
        /\ At(hist.post, Len(hist.post.rows), cache.week_col) = hist.week
        /\ IsPrefix("New Lesson ",
                    At(hist.post, Len(hist.post.rows), cache.title_col).s)

C3_Witness ==
    /\ hist.last = "add"
    /\ Len(hist.pre.rows) = 2
    /\ hist.week = IntVal(2)
    /\ Len(hist.post.cols) > Len(hist.pre.cols)

\* C4: no two records added in a session carry the same title.
C4_AddedTitlesUnique ==
    \A i, j \in 1..Len(hist.titles) : i # j => hist.titles[i] # hist.titles[j]

\* C10: after the last save the backing file holds the loaded dataset with
\* every add and edit of the session applied, in order.
C10_NothingLost == (hist.phase = "running" /\ hist.saved) => file = ideal

====
